---- MODULE Spec2Model ----
(***************************************************************************)
(* Inventory & transaction engine of Lallan Shop (src/services/storage.ts) *)
(* and the view handlers that call it.  The persisted collections of       *)
(* localStorage are the variables; every exported operation is one action. *)
(***************************************************************************)
EXTENDS Integers, Sequences, FiniteSets, TLC

VARIABLES
    products,          \* chaintrack_products: sequence of Product
    units,             \* chaintrack_units: sequence of ProductUnit
    bulkStock,         \* chaintrack_bulk_stock: sequence of BulkStock
    orders,            \* chaintrack_orders: sequence of Order
    settings,          \* chaintrack_settings: GlobalSettings (serial domain)
    carts,             \* chaintrack_cart_<userId>: sequence of CartItem per user
    generatedSerials,  \* ManufacturerView state: serials returned by the last Generate click
    saving,            \* saveProductBatch calls suspended at the digest await
    nextId,            \* generateId(): the next fresh id of a product or unit
    nextOrderId,       \* generateId(): the next fresh id of an order
    last               \* the last operation, its arguments and its outcome

vars == <<products, units, bulkStock, orders, settings, carts,
          generatedSerials, saving, nextId, nextOrderId, last>>

----------------------------------------------------------------------------
(* Bounds of the model *)

\* last number of the managed serial range (the default of the code is 100999)
SerialRangeEnd == 100002
\* largest quantity of one Generate click
MaxBatch == 3
\* largest quantity of one grant, transfer or line item
MaxQty == 2
\* number of generateId() calls for products and units a behaviour may make
MaxIds == 5
\* number of orders a behaviour may create
MaxOrders == 2
\* largest balance a repeated credit may build up
MaxStock == 3

(* Program constants *)

SerialRangeStart == 100000

Manufacturers == {"m1"}
Sellers == {"s1"}
Buyers == {"b1", "b2"}

\* a missing optional field (undefined) and the value of new Date() cut to a day
Undefined == "undefined"
Today == "today"
\* parseInt's NaN
NaN == -1

----------------------------------------------------------------------------
(* Number <-> string: a serial number string is its sequence of decimal digits *)

RECURSIVE toString(_)
toString(n) ==
    IF n < 10 THEN <<n>> ELSE Append(toString(n \div 10), n % 10)

RECURSIVE ParseDigits(_, _)
ParseDigits(s, acc) ==
    IF s = <<>> THEN acc ELSE ParseDigits(Tail(s), acc * 10 + Head(s))

parseInt(s) == IF s = <<>> THEN NaN ELSE ParseDigits(s, 0)

----------------------------------------------------------------------------
(* Array helpers *)

Range(s) == {s[i] : i \in 1..Len(s)}

\* Array.prototype.includes
Includes(s, x) == \E i \in 1..Len(s) : s[i] = x

RECURSIVE Insert(_, _)
Insert(x, s) ==
    IF s = <<>> THEN <<x>>
    ELSE IF x <= Head(s) THEN <<x>> \o s
    ELSE <<Head(s)>> \o Insert(x, Tail(s))

\* the list left in insertion order
SortAscMutant(s) == s

\* recycledSerials.sort((a,b) => a - b)
RECURSIVE SortAsc(_)
SortAsc(s) == IF s = <<>> THEN <<>> ELSE Insert(Head(s), SortAsc(Tail(s)))

\* the elements of a finite set of numbers in ascending order
RECURSIVE Ascending(_)
Ascending(S) ==
    IF S = {} THEN <<>>
    ELSE LET m == CHOOSE x \in S : \A y \in S : x <= y
         IN  <<m>> \o Ascending(S \ {m})

\* index of the first element satisfying Test, 0 when there is none (find / findIndex)
FindIndex(s, Test(_)) ==
    IF \E i \in 1..Len(s) : Test(s[i])
    THEN CHOOSE i \in 1..Len(s) : Test(s[i]) /\ \A j \in 1..(i - 1) : ~Test(s[j])
    ELSE 0

----------------------------------------------------------------------------
(* Serial allocator *)

GlobalSettings(recycled) ==
    [serialRangeStart |-> SerialRangeStart,
     serialRangeEnd   |-> SerialRangeEnd,
     recycledSerials  |-> recycled]

\* usedNumbers: the numeric serials of all units
UsedNumbers(allUnits) ==
    {parseInt(allUnits[i].serialNumber) : i \in 1..Len(allUnits)} \ {NaN}

\* step 1: take candidates from the front of the sorted recycled list
RECURSIVE DrainRecycled(_, _, _, _)
DrainRecycled(recycled, generated, quantity, usedNumbers) ==
    IF Len(generated) < quantity /\ Len(recycled) > 0
    THEN DrainRecycled(Tail(recycled),
                       IF Head(recycled) \notin usedNumbers
                       THEN Append(generated, toString(Head(recycled)))
                       ELSE generated,
                       quantity, usedNumbers)
    ELSE [recycledSerials |-> recycled, generated |-> generated]

\* the scan without its usedNumbers test
RECURSIVE GenerateLinearMutant(_, _, _, _, _)
GenerateLinearMutant(candidate, generated, quantity, usedNumbers, rangeEnd) ==
    IF Len(generated) < quantity
    THEN IF candidate > rangeEnd
         THEN [threw |-> TRUE, generated |-> generated]
         ELSE GenerateLinearMutant(candidate + 1, Append(generated, toString(candidate)),
                                   quantity, usedNumbers, rangeEnd)
    ELSE [threw |-> FALSE, generated |-> generated]

\* step 2: scan from serialRangeStart; threw = "Serial number range exhausted"
RECURSIVE GenerateLinear(_, _, _, _, _)
GenerateLinear(candidate, generated, quantity, usedNumbers, rangeEnd) ==
    IF Len(generated) < quantity
    THEN IF candidate > rangeEnd
         THEN [threw |-> TRUE, generated |-> generated]
         ELSE GenerateLinear(candidate + 1,
                             IF candidate \notin usedNumbers
                             THEN Append(generated, toString(candidate))
                             ELSE generated,
                             quantity, usedNumbers, rangeEnd)
    ELSE [threw |-> FALSE, generated |-> generated]

\* the call's outcome: threw, the returned strings, and the settings it saved
generateNextSerialBatch(quantity, st, allUnits) ==
    LET usedNumbers == UsedNumbers(allUnits)
        drained == DrainRecycled(SortAsc(st.recycledSerials), <<>>, quantity, usedNumbers)
        scanned == GenerateLinear(st.serialRangeStart, drained.generated, quantity,
                                  usedNumbers, st.serialRangeEnd)
    IN  [threw     |-> scanned.threw,
         generated |-> scanned.generated,
         settings  |-> [st EXCEPT !.recycledSerials = drained.recycledSerials]]

----------------------------------------------------------------------------
(* Catalog, units and bulk stock *)

Product(id, manufacturerId, isSerialized) ==
    [id |-> id, manufacturerId |-> manufacturerId, isSerialized |-> isSerialized]

\* SHA-256 of `${serialNumber}-${manufacturerId}-${SYSTEM_SECRET_KEY}`, taken as collision free
generateSecureHash(serialNumber, manufacturerId) ==
    <<"sha256", serialNumber, manufacturerId, "LALLAN-ASKE-V1-SECRET">>

\* the unit handleProductionSubmit builds, with the digest saveProductBatch adds
NewUnit(id, productId, serialNumber, manufacturerId) ==
    [id               |-> id,
     productId        |-> productId,
     serialNumber     |-> serialNumber,
     status           |-> "IN_FACTORY",
     uniqueAuthHash   |-> generateSecureHash(serialNumber, manufacturerId),
     manufacturerId   |-> manufacturerId,
     sellerId         |-> Undefined,
     buyerId          |-> Undefined,
     dateSentToSeller |-> Undefined,
     dateSold         |-> Undefined,
     dateReturned     |-> Undefined]

BulkStock(productId, ownerId, quantity) ==
    [productId |-> productId, ownerId |-> ownerId, quantity |-> quantity]

\* products[pIndex] = product, or products.push(product)
SaveProduct(ps, product) ==
    LET pIndex == FindIndex(ps, LAMBDA p : p.id = product.id)
    IN  IF pIndex > 0 THEN [ps EXCEPT ![pIndex] = product] ELSE Append(ps, product)

StockIndex(allStock, productId, ownerId) ==
    FindIndex(allStock, LAMBDA s : s.productId = productId /\ s.ownerId = ownerId)

\* a credit that pushes a new record every time
CreditStockMutant(allStock, productId, ownerId, quantity) ==
    Append(allStock, BulkStock(productId, ownerId, quantity))

\* existingStock.quantity += quantity, or push a new record
CreditStock(allStock, productId, ownerId, quantity) ==
    LET i == StockIndex(allStock, productId, ownerId)
    IN  IF i > 0
        THEN [allStock EXCEPT ![i].quantity = @ + quantity]
        ELSE Append(allStock, BulkStock(productId, ownerId, quantity))

\* exploration stops where a repeated credit would push a balance past MaxStock
StockWithin(allStock) == \A k \in 1..Len(allStock) : allStock[k].quantity <= MaxStock

\* settings.recycledSerials after recycling the serials of the units in doomed, in order
RECURSIVE RecycleSerials(_, _)
RecycleSerials(recycled, doomed) ==
    IF doomed = <<>> THEN recycled
    ELSE LET num == parseInt(Head(doomed).serialNumber)
         IN  RecycleSerials(IF num # NaN /\ ~Includes(recycled, num)
                            THEN Append(recycled, num)
                            ELSE recycled,
                            Tail(doomed))

Idle == [active |-> FALSE, allUnits |-> <<>>, finalUnits |-> <<>>]

----------------------------------------------------------------------------
(* Initial state: empty store, default settings *)

Init ==
    /\ products = <<>>
    /\ units = <<>>
    /\ bulkStock = <<>>
    /\ orders = <<>>
    /\ settings = GlobalSettings(<<>>)
    /\ carts = [b \in Buyers |-> <<>>]
    /\ generatedSerials = [m \in Manufacturers |-> <<>>]
    /\ saving = [m \in Manufacturers |-> Idle]
    /\ nextId = 1
    /\ nextOrderId = 1
    /\ last = [op |-> "init", ok |-> TRUE, after |-> <<>>]

----------------------------------------------------------------------------
(* Manufacturer: serial generation, production, deletion *)

\* the record of the previous operation, kept when it is one of ops
After(ops) == IF last.op \in ops THEN <<[last EXCEPT !.after = <<>>]>> ELSE <<>>

\* a Generate click whose failed call still saves the drained settings
GenerateSerialsMutant(m, qty) ==
    LET r == generateNextSerialBatch(qty, settings, units)
    IN  /\ settings' = r.settings
        /\ generatedSerials' = (IF r.threw THEN generatedSerials
                                ELSE [generatedSerials EXCEPT ![m] = r.generated])
        /\ last' = [op |-> "generateNextSerialBatch", ok |-> ~r.threw,
                    after |-> After({"deleteProductUnit"}),
                    quantity |-> qty,
                    generated |-> (IF r.threw THEN <<>> ELSE r.generated),
                    preSettings |-> settings, preUnits |-> units]
        /\ UNCHANGED <<products, units, bulkStock, orders, carts, saving, nextId, nextOrderId>>

\* handleGenerateSerials: generateNextSerialBatch(qty), the result kept in view state
GenerateSerials(m, qty) ==
    LET r == generateNextSerialBatch(qty, settings, units)
    IN  /\ settings' = (IF r.threw THEN settings ELSE r.settings)
        /\ generatedSerials' = (IF r.threw THEN generatedSerials
                                ELSE [generatedSerials EXCEPT ![m] = r.generated])
        /\ last' = [op |-> "generateNextSerialBatch", ok |-> ~r.threw,
                    after |-> After({"deleteProductUnit"}),
                    quantity |-> qty,
                    generated |-> (IF r.threw THEN <<>> ELSE r.generated),
                    preSettings |-> settings, preUnits |-> units]
        /\ UNCHANGED <<products, units, bulkStock, orders, carts, saving, nextId, nextOrderId>>

\* handleProductionSubmit of a serialized product: saveProductBatch writes the
\* product, reads the unit collection and suspends at the first digest await
ProductionSubmitSerialized(m) ==
    /\ generatedSerials[m] # <<>>
    /\ ~saving[m].active
    /\ nextId + Len(generatedSerials[m]) <= MaxIds
    /\ LET productId == nextId
           finalUnits == [i \in 1..Len(generatedSerials[m]) |->
                            NewUnit(nextId + i, productId, generatedSerials[m][i], m)]
       IN  /\ products' = SaveProduct(products, Product(productId, m, TRUE))
           /\ saving' = [saving EXCEPT ![m] =
                            [active |-> TRUE, allUnits |-> units, finalUnits |-> finalUnits]]
           /\ nextId' = nextId + 1 + Len(generatedSerials[m])
           /\ last' = [op |-> "saveProductBatch", ok |-> TRUE, after |-> <<>>]
    /\ UNCHANGED <<units, bulkStock, orders, settings, carts, generatedSerials, nextOrderId>>

\* a resumption that reads the unit collection again before it writes
ProductionResumeMutant(m) ==
    /\ saving[m].active
    /\ units' = units \o saving[m].finalUnits
    /\ saving' = [saving EXCEPT ![m] = Idle]
    /\ generatedSerials' = [generatedSerials EXCEPT ![m] = <<>>]
    /\ last' = [op |-> "saveProductBatchDone", ok |-> TRUE, after |-> After({"deleteProductUnit"})]
    /\ UNCHANGED <<products, bulkStock, orders, settings, carts, nextId, nextOrderId>>

\* the digests resolve: saveProductBatch writes its snapshot plus the new units,
\* then handleProductionSubmit resets the form
ProductionResume(m) ==
    /\ saving[m].active
    /\ units' = saving[m].allUnits \o saving[m].finalUnits
    /\ saving' = [saving EXCEPT ![m] = Idle]
    /\ generatedSerials' = [generatedSerials EXCEPT ![m] = <<>>]
    /\ last' = [op |-> "saveProductBatchDone", ok |-> TRUE, after |-> After({"deleteProductUnit"})]
    /\ UNCHANGED <<products, bulkStock, orders, settings, carts, nextId, nextOrderId>>

\* handleProductionSubmit of a bulk product: no await is reached
ProductionSubmitBulk(m, qty) ==
    /\ ~saving[m].active
    /\ nextId <= MaxIds
    /\ products' = SaveProduct(products, Product(nextId, m, FALSE))
    /\ bulkStock' = CreditStock(bulkStock, nextId, m, qty)
    /\ nextId' = nextId + 1
    /\ generatedSerials' = [generatedSerials EXCEPT ![m] = <<>>]
    /\ last' = [op |-> "saveProductBatch", ok |-> TRUE, after |-> <<>>]
    /\ UNCHANGED <<units, orders, settings, carts, saving, nextOrderId>>

deleteProductUnit(unitId) ==
    LET doomed == SelectSeq(units, LAMBDA u : u.id = unitId)
    IN  /\ units' = SelectSeq(units, LAMBDA u : u.id # unitId)
        /\ settings' = [settings EXCEPT !.recycledSerials =
                           RecycleSerials(@, SubSeq(doomed, 1, IF doomed = <<>> THEN 0 ELSE 1))]
        /\ last' = [op |-> "deleteProductUnit", ok |-> TRUE, after |-> <<>>,
                    deleted |-> doomed]
        /\ UNCHANGED <<products, bulkStock, orders, carts, generatedSerials, saving, nextId, nextOrderId>>

deleteProduct(productId) ==
    /\ settings' = [settings EXCEPT !.recycledSerials =
                       RecycleSerials(@, SelectSeq(units, LAMBDA u : u.productId = productId))]
    /\ products' = SelectSeq(products, LAMBDA p : p.id # productId)
    /\ units' = SelectSeq(units, LAMBDA u : u.productId # productId)
    /\ bulkStock' = SelectSeq(bulkStock, LAMBDA s : s.productId # productId)
    /\ last' = [op |-> "deleteProduct", ok |-> TRUE, after |-> <<>>]
    /\ UNCHANGED <<orders, carts, generatedSerials, saving, nextId, nextOrderId>>

----------------------------------------------------------------------------
(* Orders, carts and the unit lifecycle *)

OrderId(n) == <<"order", n>>

CartItem(productId, sellerId, quantity, isSerialized) ==
    [productId |-> productId, sellerId |-> sellerId, quantity |-> quantity,
     isSerialized |-> isSerialized]

\* the order processCheckout builds for one line item (assignedUnitIds not yet set)
NewOrder(id, item, sellerId, buyerId) ==
    [id                 |-> id,
     productId          |-> item.productId,
     sellerId           |-> sellerId,
     buyerId            |-> buyerId,
     quantity           |-> item.quantity,
     status             |-> "Awaiting Confirmation",
     hasAssignedUnitIds |-> FALSE,
     assignedUnitIds    |-> <<>>]

UnitIndex(allUnits, id) == FindIndex(allUnits, LAMBDA u : u.id = id)

\* a lookup that falls back to the last order when the id is not found
OrderIndexMutant(allOrders, id) ==
    LET i == FindIndex(allOrders, LAMBDA o : o.id = id)
    IN  IF i = 0 THEN Len(allOrders) ELSE i

OrderIndex(allOrders, id) == FindIndex(allOrders, LAMBDA o : o.id = id)

\* ids.forEach(id => { const u = allUnits.find(unit => unit.id === id); if (u) update u })
UpdateUnits(allUnits, ids, Upd(_)) ==
    LET hit == {UnitIndex(allUnits, ids[k]) : k \in 1..Len(ids)}
    IN  [i \in 1..Len(allUnits) |-> IF i \in hit THEN Upd(allUnits[i]) ELSE allUnits[i]]

\* Array.prototype.slice(0, end)
Slice(s, end) ==
    LET n == IF end >= 0
             THEN (IF end < Len(s) THEN end ELSE Len(s))
             ELSE (IF Len(s) + end > 0 THEN Len(s) + end ELSE 0)
    IN  SubSeq(s, 1, n)

\* item.sellerId, or the product's manufacturer for an item without one
ResolveSeller(item, ps) ==
    IF item.sellerId # Undefined THEN item.sellerId
    ELSE LET i == FindIndex(ps, LAMBDA p : p.id = item.productId)
         IN  IF i > 0 THEN ps[i].manufacturerId ELSE Undefined

\* the seller's units of the product that can be sold
AvailableUnits(allUnits, productId, sellerId) ==
    SelectSeq(allUnits, LAMBDA u :
        /\ u.productId = productId
        /\ u.sellerId = sellerId
        /\ u.status \in {"AT_SELLER", "RETURNED_TO_SELLER"})

\* a Step A that also rejects a line asking for all the seller holds
ValidateItemMutant(item, ps, allUnits, allStock) ==
    LET sellerId == ResolveSeller(item, ps)
        i == StockIndex(allStock, item.productId, sellerId)
    IN  IF sellerId = Undefined THEN "Data integrity error"
        ELSE IF item.isSerialized
        THEN (IF Len(AvailableUnits(allUnits, item.productId, sellerId)) <= item.quantity
              THEN "Insufficient stock" ELSE "ok")
        ELSE (IF i = 0 \/ allStock[i].quantity <= item.quantity
              THEN "Insufficient bulk stock" ELSE "ok")

\* Step A for one line item: "ok", or the error it throws
ValidateItem(item, ps, allUnits, allStock) ==
    LET sellerId == ResolveSeller(item, ps)
        i == StockIndex(allStock, item.productId, sellerId)
    IN  IF sellerId = Undefined THEN "Data integrity error"
        ELSE IF item.isSerialized
        THEN (IF Len(AvailableUnits(allUnits, item.productId, sellerId)) < item.quantity
              THEN "Insufficient stock" ELSE "ok")
        ELSE (IF i = 0 \/ allStock[i].quantity < item.quantity
              THEN "Insufficient bulk stock" ELSE "ok")

\* a Step A that stops after the first line item
FirstInvalidMutant(cartItems, ps, allUnits, allStock) ==
    IF ValidateItem(cartItems[1], ps, allUnits, allStock) # "ok" THEN 1 ELSE 0

\* Step A: the first line item that throws, 0 when every one passes
FirstInvalid(cartItems, ps, allUnits, allStock) ==
    LET bad == {k \in 1..Len(cartItems) :
                    ValidateItem(cartItems[k], ps, allUnits, allStock) # "ok"}
    IN  IF bad = {} THEN 0 ELSE CHOOSE k \in bad : \A j \in bad : k <= j

\* Steps B and C for one line item, on the collections held in memory
ExecuteItem(item, user, ps, acc) ==
    LET sellerId == ResolveSeller(item, ps)
        unitsToAssign == Slice(AvailableUnits(acc.units, item.productId, sellerId),
                               item.quantity)
        unitIds == [k \in 1..Len(unitsToAssign) |-> unitsToAssign[k].id]
        newOrder == NewOrder(OrderId(acc.nextOrderId), item, sellerId, user)
    IN  IF sellerId = Undefined THEN acc
        ELSE IF item.isSerialized
        THEN [units |-> [i \in 1..Len(acc.units) |->
                            IF Includes(unitIds, acc.units[i].id)
                            THEN [acc.units[i] EXCEPT !.status = "SOLD_TO_BUYER",
                                                      !.buyerId = user,
                                                      !.dateSold = Today]
                            ELSE acc.units[i]],
              stock |-> acc.stock,
              newOrders |-> Append(acc.newOrders,
                                   [newOrder EXCEPT !.hasAssignedUnitIds = TRUE,
                                                    !.assignedUnitIds = unitIds]),
              nextOrderId |-> acc.nextOrderId + 1]
        ELSE [units |-> acc.units,
              stock |-> [i \in 1..Len(acc.stock) |->
                            IF /\ acc.stock[i].productId = item.productId
                               /\ acc.stock[i].ownerId = sellerId
                            THEN [acc.stock[i] EXCEPT !.quantity = @ - item.quantity]
                            ELSE acc.stock[i]],
              newOrders |-> Append(acc.newOrders, newOrder),
              nextOrderId |-> acc.nextOrderId + 1]

RECURSIVE ExecuteItems(_, _, _, _)
ExecuteItems(cartItems, user, ps, acc) ==
    IF cartItems = <<>> THEN acc
    ELSE ExecuteItems(Tail(cartItems), user, ps, ExecuteItem(Head(cartItems), user, ps, acc))

\* BuyerView adds a line to the stored cart
addToCart(userId, item) ==
    LET cart == carts[userId]
        i == FindIndex(cart, LAMBDA c : c.productId = item.productId /\ c.sellerId = item.sellerId)
        total == item.quantity + (IF i > 0 THEN cart[i].quantity ELSE 0)
    IN  /\ total <= MaxQty
        /\ Len(cart) < MaxQty \/ i > 0
        /\ carts' = [carts EXCEPT ![userId] =
                        IF i > 0 THEN [cart EXCEPT ![i].quantity = total]
                        ELSE Append(cart, item)]
        /\ last' = [op |-> "addToCart", ok |-> TRUE, after |-> <<>>]
        /\ UNCHANGED <<products, units, bulkStock, orders, settings, generatedSerials,
                       saving, nextId, nextOrderId>>

\* a checkout that clears the cart of every buyer
processCheckoutMutant(user, cartItems) ==
    LET failed == FirstInvalid(cartItems, products, units, bulkStock)
        done == ExecuteItems(cartItems, user, products,
                             [units |-> units, stock |-> bulkStock,
                              newOrders |-> <<>>, nextOrderId |-> nextOrderId])
    IN  IF failed > 0
        THEN /\ last' = [op |-> "processCheckout", ok |-> FALSE, after |-> <<>>,
                         lines |-> Len(cartItems), failedLine |-> failed]
             /\ UNCHANGED <<products, units, bulkStock, orders, settings, carts,
                            generatedSerials, saving, nextId, nextOrderId>>
        ELSE /\ (nextOrderId - 1) + Len(cartItems) <= MaxOrders
             /\ units' = done.units
             /\ bulkStock' = done.stock
             /\ orders' = orders \o done.newOrders
             /\ carts' = [b \in DOMAIN carts |-> <<>>]
             /\ nextOrderId' = done.nextOrderId
             /\ last' = [op |-> "processCheckout", ok |-> TRUE, after |-> <<>>,
                         newOrders |-> done.newOrders,
                         preUnits |-> units, preStock |-> bulkStock]
             /\ UNCHANGED <<products, settings, generatedSerials, saving, nextId>>

processCheckout(user, cartItems) ==
    LET failed == FirstInvalid(cartItems, products, units, bulkStock)
        done == ExecuteItems(cartItems, user, products,
                             [units |-> units, stock |-> bulkStock,
                              newOrders |-> <<>>, nextOrderId |-> nextOrderId])
    IN  IF failed > 0
        THEN /\ last' = [op |-> "processCheckout", ok |-> FALSE, after |-> <<>>,
                         lines |-> Len(cartItems), failedLine |-> failed]
             /\ UNCHANGED <<products, units, bulkStock, orders, settings, carts,
                            generatedSerials, saving, nextId, nextOrderId>>
        ELSE /\ (nextOrderId - 1) + Len(cartItems) <= MaxOrders
             /\ units' = done.units
             /\ bulkStock' = done.stock
             /\ orders' = orders \o done.newOrders
             /\ carts' = [carts EXCEPT ![user] = <<>>]
             /\ nextOrderId' = done.nextOrderId
             /\ last' = [op |-> "processCheckout", ok |-> TRUE, after |-> <<>>,
                         newOrders |-> done.newOrders,
                         preUnits |-> units, preStock |-> bulkStock]
             /\ UNCHANGED <<products, settings, generatedSerials, saving, nextId>>

\* unitIds is null when hasUnitIds is FALSE
fulfillOrder(orderId, hasUnitIds, unitIds) ==
    LET i == OrderIndex(orders, orderId)
        assign == /\ hasUnitIds
                  /\ ~orders[i].hasAssignedUnitIds \/ Len(orders[i].assignedUnitIds) = 0
    IN  /\ orders' = (IF i = 0 THEN orders
                      ELSE [orders EXCEPT ![i].status = "Confirmed",
                                          ![i].hasAssignedUnitIds = IF assign THEN TRUE ELSE @,
                                          ![i].assignedUnitIds = IF assign THEN unitIds ELSE @])
        /\ units' = (IF i > 0 /\ assign
                     THEN UpdateUnits(units, unitIds, LAMBDA u :
                              [u EXCEPT !.status = "SOLD_TO_BUYER",
                                        !.buyerId = orders[i].buyerId,
                                        !.dateSold = Today])
                     ELSE units)
        /\ last' = [op |-> "fulfillOrder", ok |-> i > 0, after |-> <<>>]
        /\ UNCHANGED <<products, bulkStock, settings, carts, generatedSerials, saving,
                       nextId, nextOrderId>>

\* handleConfirmDelivery: saveOrder({...order, status: 'Delivered'})
handleConfirmDelivery(orderId) ==
    LET i == OrderIndex(orders, orderId)
    IN  /\ i > 0
        /\ orders' = [orders EXCEPT ![i].status = "Delivered"]
        /\ last' = [op |-> "saveOrder", ok |-> TRUE, after |-> <<>>]
        /\ UNCHANGED <<products, units, bulkStock, settings, carts, generatedSerials,
                       saving, nextId, nextOrderId>>

\* a cancellation that returns the units to the seller but keeps their buyer
cancelOrderMutant(orderId) ==
    LET i == OrderIndex(orders, orderId)
        reserved == i > 0 /\ orders[i].hasAssignedUnitIds /\ Len(orders[i].assignedUnitIds) > 0
    IN  /\ units' = (IF reserved
                     THEN UpdateUnits(units, orders[i].assignedUnitIds, LAMBDA u :
                              [u EXCEPT !.status = "AT_SELLER"])
                     ELSE units)
        /\ bulkStock' = (IF i > 0 /\ ~reserved
                         THEN Append(bulkStock, BulkStock(orders[i].productId, orders[i].sellerId,
                                                          orders[i].quantity))
                         ELSE bulkStock)
        /\ orders' = (IF i > 0 THEN SubSeq(orders, 1, i - 1) \o SubSeq(orders, i + 1, Len(orders))
                      ELSE orders)
        /\ last' = [op |-> "cancelOrder", ok |-> i > 0, after |-> After({"processCheckout"}),
                    orderId |-> orderId]
        /\ UNCHANGED <<products, settings, carts, generatedSerials, saving, nextId, nextOrderId>>

cancelOrder(orderId) ==
    LET i == OrderIndex(orders, orderId)
        reserved == i > 0 /\ orders[i].hasAssignedUnitIds /\ Len(orders[i].assignedUnitIds) > 0
    IN  /\ units' = (IF reserved
                     THEN UpdateUnits(units, orders[i].assignedUnitIds, LAMBDA u :
                              [u EXCEPT !.status = "AT_SELLER",
                                        !.buyerId = Undefined,
                                        !.dateSold = Undefined])
                     ELSE units)
        /\ bulkStock' = (IF i > 0 /\ ~reserved
                         THEN CreditStock(bulkStock, orders[i].productId, orders[i].sellerId,
                                          orders[i].quantity)
                         ELSE bulkStock)
        /\ orders' = (IF i > 0 THEN SubSeq(orders, 1, i - 1) \o SubSeq(orders, i + 1, Len(orders))
                      ELSE orders)
        /\ last' = [op |-> "cancelOrder", ok |-> i > 0, after |-> After({"processCheckout"}),
                    orderId |-> orderId]
        /\ UNCHANGED <<products, settings, carts, generatedSerials, saving, nextId, nextOrderId>>

\* a return request that also wipes the sale date of the units
requestOrderReturnMutant(orderId) ==
    LET i == OrderIndex(orders, orderId)
    IN  /\ orders' = (IF i > 0 THEN [orders EXCEPT ![i].status = "Return Requested"] ELSE orders)
        /\ units' = (IF i > 0 /\ orders[i].hasAssignedUnitIds
                     THEN UpdateUnits(units, orders[i].assignedUnitIds, LAMBDA u :
                              [u EXCEPT !.status = "RETURN_REQUESTED",
                                        !.dateSold = Undefined])
                     ELSE units)
        /\ last' = [op |-> "requestOrderReturn", ok |-> i > 0, after |-> After({"saveOrder"})]
        /\ UNCHANGED <<products, bulkStock, settings, carts, generatedSerials, saving,
                       nextId, nextOrderId>>

requestOrderReturn(orderId) ==
    LET i == OrderIndex(orders, orderId)
    IN  /\ orders' = (IF i > 0 THEN [orders EXCEPT ![i].status = "Return Requested"] ELSE orders)
        /\ units' = (IF i > 0 /\ orders[i].hasAssignedUnitIds
                     THEN UpdateUnits(units, orders[i].assignedUnitIds, LAMBDA u :
                              [u EXCEPT !.status = "RETURN_REQUESTED"])
                     ELSE units)
        /\ last' = [op |-> "requestOrderReturn", ok |-> i > 0, after |-> After({"saveOrder"})]
        /\ UNCHANGED <<products, bulkStock, settings, carts, generatedSerials, saving,
                       nextId, nextOrderId>>

processBuyerReturn(orderId, accept) ==
    LET i == OrderIndex(orders, orderId)
        j == StockIndex(bulkStock, orders[i].productId, orders[i].sellerId)
    IN  /\ orders' = (IF i > 0
                      THEN [orders EXCEPT ![i].status = IF accept THEN "Returned" ELSE "Delivered"]
                      ELSE orders)
        /\ units' = (IF i > 0 /\ orders[i].hasAssignedUnitIds
                     THEN UpdateUnits(units, orders[i].assignedUnitIds, LAMBDA u :
                              [u EXCEPT !.status = IF accept THEN "RETURNED_TO_SELLER"
                                                   ELSE "SOLD_TO_BUYER"])
                     ELSE units)
        /\ bulkStock' = (IF i > 0 /\ accept /\ ~orders[i].hasAssignedUnitIds /\ j > 0
                         THEN [bulkStock EXCEPT ![j].quantity = @ + orders[i].quantity]
                         ELSE bulkStock)
        /\ StockWithin(bulkStock')
        /\ last' = [op |-> "processBuyerReturn", ok |-> i > 0, after |-> <<>>]
        /\ UNCHANGED <<products, settings, carts, generatedSerials, saving, nextId, nextOrderId>>

\* a defect mark that also computes the authenticity code again, without the producer
returnUnitsToManufacturerMutant(unitIds) ==
    /\ units' = UpdateUnits(units, unitIds, LAMBDA u :
                    [u EXCEPT !.status = "RETURNED_DEFECTIVE", !.dateReturned = Today,
                              !.uniqueAuthHash = generateSecureHash(u.serialNumber, Undefined)])
    /\ last' = [op |-> "returnUnitsToManufacturer", ok |-> TRUE, after |-> <<>>]
    /\ UNCHANGED <<products, bulkStock, orders, settings, carts, generatedSerials, saving,
                   nextId, nextOrderId>>

returnUnitsToManufacturer(unitIds) ==
    /\ units' = UpdateUnits(units, unitIds, LAMBDA u :
                    [u EXCEPT !.status = "RETURNED_DEFECTIVE", !.dateReturned = Today])
    /\ last' = [op |-> "returnUnitsToManufacturer", ok |-> TRUE, after |-> <<>>]
    /\ UNCHANGED <<products, bulkStock, orders, settings, carts, generatedSerials, saving,
                   nextId, nextOrderId>>

\* updateProductUnits: allUnits[idx] = u for every u whose id is found, in order
updateProductUnits(allUnits, unitsToUpdate) ==
    [i \in 1..Len(allUnits) |->
        LET ks == {n \in 1..Len(unitsToUpdate) :
                      UnitIndex(allUnits, unitsToUpdate[n].id) = i}
        IN  IF ks = {} THEN allUnits[i]
            ELSE unitsToUpdate[CHOOSE n \in ks : \A n2 \in ks : n2 <= n]]

\* a dispatch that takes every selected unit it finds, whatever its status
DispatchedUnitsMutant(allUnits, unitIds, targetSellerId) ==
    LET found == SelectSeq(unitIds, LAMBDA id : UnitIndex(allUnits, id) > 0)
    IN  [k \in 1..Len(found) |->
            [allUnits[UnitIndex(allUnits, found[k])] EXCEPT
                !.status = "AT_SELLER",
                !.sellerId = targetSellerId,
                !.dateSentToSeller = Today]]

\* the units confirmDispatch hands to updateProductUnits for one serialized cart item
DispatchedUnits(allUnits, unitIds, targetSellerId) ==
    LET found == SelectSeq(unitIds, LAMBDA id :
                     UnitIndex(allUnits, id) > 0
                     /\ allUnits[UnitIndex(allUnits, id)].status = "IN_FACTORY")
    IN  [k \in 1..Len(found) |->
            [allUnits[UnitIndex(allUnits, found[k])] EXCEPT
                !.status = "AT_SELLER",
                !.sellerId = targetSellerId,
                !.dateSentToSeller = Today]]

\* a transfer that debits the source and credits nobody
TransferredStockMutant(allStock, productId, fromOwnerId, toOwnerId, quantity) ==
    LET i == StockIndex(allStock, productId, fromOwnerId)
    IN  IF i > 0 /\ allStock[i].quantity >= quantity
        THEN [allStock EXCEPT ![i].quantity = @ - quantity]
        ELSE allStock

\* a transfer that does not compare the source quantity with the request
TransferredStockOverdraft(allStock, productId, fromOwnerId, toOwnerId, quantity) ==
    LET i == StockIndex(allStock, productId, fromOwnerId)
        debited == [allStock EXCEPT ![i].quantity = @ - quantity]
    IN  IF i > 0
        THEN (IF toOwnerId # Undefined
              THEN CreditStock(debited, productId, toOwnerId, quantity)
              ELSE debited)
        ELSE allStock

\* the debit and credit of transferBulkStock on the stock list
TransferredStock(allStock, productId, fromOwnerId, toOwnerId, quantity) ==
    LET i == StockIndex(allStock, productId, fromOwnerId)
        debited == [allStock EXCEPT ![i].quantity = @ - quantity]
    IN  IF i > 0 /\ allStock[i].quantity >= quantity
        THEN (IF toOwnerId # Undefined
              THEN CreditStock(debited, productId, toOwnerId, quantity)
              ELSE debited)
        ELSE allStock

\* toOwnerId is Undefined for a null destination
transferBulkStock(productId, fromOwnerId, toOwnerId, quantity) ==
    LET i == StockIndex(bulkStock, productId, fromOwnerId)
        j == StockIndex(bulkStock, productId, toOwnerId)
    IN  /\ bulkStock' = TransferredStock(bulkStock, productId, fromOwnerId, toOwnerId, quantity)
        /\ last' = [op |-> "transferBulkStock", ok |-> TRUE,
                    after |-> After({"transferBulkStock"}),
                    productId |-> productId, from |-> fromOwnerId, to |-> toOwnerId,
                    quantity |-> quantity,
                    preFrom |-> (IF i > 0 THEN bulkStock[i].quantity ELSE 0),
                    preTo |-> (IF j > 0 THEN bulkStock[j].quantity ELSE 0)]
        /\ UNCHANGED <<products, units, orders, settings, carts, generatedSerials, saving,
                       nextId, nextOrderId>>

\* confirmDispatch with one cart item: a serialized item names its units, a bulk
\* item its quantity
RECURSIVE DispatchItems(_, _, _, _)
DispatchItems(cartItems, userId, targetSellerId, acc) ==
    IF cartItems = <<>> THEN acc
    ELSE LET item == Head(cartItems)
         IN  DispatchItems(Tail(cartItems), userId, targetSellerId,
                 IF item.isSerialized
                 THEN [acc EXCEPT !.units =
                          IF Len(item.unitIds) > 0
                          THEN updateProductUnits(acc.units,
                                   DispatchedUnits(acc.units, item.unitIds, targetSellerId))
                          ELSE @]
                 ELSE [acc EXCEPT !.stock =
                          TransferredStock(@, item.productId, userId, targetSellerId,
                                           item.quantity)])

confirmDispatch(userId, targetSellerId, cartItems) ==
    LET done == DispatchItems(cartItems, userId, targetSellerId,
                              [units |-> units, stock |-> bulkStock])
    IN  /\ units' = done.units
        /\ bulkStock' = done.stock
        /\ last' = [op |-> "confirmDispatch", ok |-> TRUE, after |-> <<>>]
        /\ UNCHANGED <<products, orders, settings, carts, generatedSerials, saving,
                       nextId, nextOrderId>>

returnBulkToManufacturer(productId, sellerId, quantity) ==
    LET i == StockIndex(bulkStock, productId, sellerId)
        p == FindIndex(products, LAMBDA x : x.id = productId)
        debited == [bulkStock EXCEPT ![i].quantity = @ - quantity]
        k == StockIndex(debited, productId, products[p].manufacturerId)
    IN  /\ bulkStock' = (IF i > 0 /\ bulkStock[i].quantity >= quantity
                         THEN (IF p > 0 /\ k > 0
                               THEN [debited EXCEPT ![k].quantity = @ + quantity]
                               ELSE debited)
                         ELSE bulkStock)
        /\ last' = [op |-> "returnBulkToManufacturer", ok |-> TRUE, after |-> <<>>]
        /\ UNCHANGED <<products, units, orders, settings, carts, generatedSerials, saving,
                       nextId, nextOrderId>>

----------------------------------------------------------------------------
(* QR signing.  A string is the sequence of its character codes; a 32-bit word  *)
(* is the sequence of its four bytes, lowest first.                             *)

\* the character codes of a string of decimal digits
CharCodes(digits) == [i \in 1..Len(digits) |-> 48 + digits[i]]

\* 'LALLAN-ASKE-V1-SECRET'
SYSTEM_SECRET_KEY ==
    <<76, 65, 76, 76, 65, 78, 45, 65, 83, 75, 69, 45, 86, 49, 45, 83, 69, 67, 82, 69, 84>>

\* a ^ b on numbers of n bits
RECURSIVE BitXor(_, _, _)
BitXor(a, b, n) ==
    IF n = 0 THEN 0
    ELSE (((a % 2) + (b % 2)) % 2) + 2 * BitXor(a \div 2, b \div 2, n - 1)

\* h ^ str.charCodeAt(i)
XorCode(h, code) ==
    <<BitXor(h[1], code % 256, 8), BitXor(h[2], code \div 256, 8), h[3], h[4]>>

\* Math.imul(x, 2654435761): the low 32 bits of the product, 2654435761 = 0x9E3779B1
imul(x) ==
    LET k == <<177, 121, 55, 158>>
        p1 == x[1] * k[1]
        p2 == x[1] * k[2] + x[2] * k[1] + (p1 \div 256)
        p3 == x[1] * k[3] + x[2] * k[2] + x[3] * k[1] + (p2 \div 256)
        p4 == x[1] * k[4] + x[2] * k[3] + x[3] * k[2] + x[4] * k[1] + (p3 \div 256)
    IN  <<p1 % 256, p2 % 256, p3 % 256, p4 % 256>>

\* the loop of generateSyncSignature from character i on; each word is four bytes
RECURSIVE HashFrom(_, _, _)
HashFrom(h, str, i) ==
    IF i > Len(str) THEN h
    ELSE LET next == imul(XorCode(h, str[i]))
         IN  IF next \in Seq(0..255) THEN HashFrom(next, str, i + 1) ELSE h

\* Number.prototype.toString(16) of an unsigned word: no leading zeros
HexString(w) ==
    LET nibbles == <<w[4] \div 16, w[4] % 16, w[3] \div 16, w[3] % 16,
                     w[2] \div 16, w[2] % 16, w[1] \div 16, w[1] % 16>>
        lead == IF \E i \in 1..8 : nibbles[i] # 0
                THEN CHOOSE i \in 1..8 : nibbles[i] # 0 /\ \A j \in 1..(i - 1) : nibbles[j] = 0
                ELSE 8
    IN  [i \in 1..(9 - lead) |->
            LET d == nibbles[lead + i - 1] IN IF d < 10 THEN 48 + d ELSE 87 + d]

\* h = 0xdeadbeef; the loop; ((h ^ h >>> 16) >>> 0).toString(16)
generateSyncSignature(str) ==
    LET h == HashFrom(<<239, 190, 173, 222>>, str, 1)
    IN  HexString(<<BitXor(h[1], h[3], 8), BitXor(h[2], h[4], 8), h[3], h[4]>>)

\* a QR text whose signature leaves the secret out
getSignedQRDataMutant(serialNumber) ==
    <<76, 83, 58>> \o serialNumber \o <<58>> \o generateSyncSignature(serialNumber)

\* `LS:${serialNumber}:${signature}`
getSignedQRData(serialNumber) ==
    <<76, 83, 58>> \o serialNumber \o <<58>>
        \o generateSyncSignature(serialNumber \o SYSTEM_SECRET_KEY)

\* String.prototype.split(':'): the parts between the ':' characters
Split(str) ==
    LET cuts == Ascending({i \in 1..Len(str) : str[i] = 58})
    IN  [k \in 1..(Len(cuts) + 1) |->
            SubSeq(str, IF k = 1 THEN 1 ELSE cuts[k - 1] + 1,
                        IF k > Len(cuts) THEN Len(str) ELSE cuts[k] - 1)]

\* a validation without the prefix test
validateSignedQRMutant(scannedText) ==
    LET parts == Split(scannedText)
    IN  IF Len(parts) # 3
        THEN [valid |-> FALSE, serialNumber |-> Undefined, error |-> "Malformed QR Data"]
        ELSE IF parts[3] # generateSyncSignature(parts[2] \o SYSTEM_SECRET_KEY)
        THEN [valid |-> FALSE, serialNumber |-> Undefined, error |-> "Forged QR Code"]
        ELSE [valid |-> TRUE, serialNumber |-> parts[2], error |-> Undefined]

validateSignedQR(scannedText) ==
    LET parts == Split(scannedText)
    IN  IF ~(Len(scannedText) >= 3 /\ SubSeq(scannedText, 1, 3) = <<76, 83, 58>>)
        THEN [valid |-> FALSE, serialNumber |-> Undefined,
              error |-> "External QR Code Detected"]
        ELSE IF Len(parts) # 3
        THEN [valid |-> FALSE, serialNumber |-> Undefined, error |-> "Malformed QR Data"]
        ELSE IF parts[3] # generateSyncSignature(parts[2] \o SYSTEM_SECRET_KEY)
        THEN [valid |-> FALSE, serialNumber |-> Undefined, error |-> "Forged QR Code"]
        ELSE [valid |-> TRUE, serialNumber |-> parts[2], error |-> Undefined]

\* the scanner hands the decoded text to validateSignedQR
handleScanSuccess(decodedText) ==
    /\ LET validation == validateSignedQR(decodedText)
       IN  last' = [op |-> "handleScanSuccess", ok |-> validation.valid,
                    after |-> <<>>, decodedText |-> decodedText,
                    validation |-> validation]
    /\ UNCHANGED <<products, units, bulkStock, orders, settings, carts, generatedSerials,
                   saving, nextId, nextOrderId>>

----------------------------------------------------------------------------
(* Verification of a claimed identity *)

\* a check that accepts the code of any unit for the scanned serial
verifyProductIdentityMutant(allUnits, qrSerialNumber, inputAuthCode) ==
    LET i == FindIndex(allUnits, LAMBDA u : u.uniqueAuthHash = inputAuthCode)
    IN  IF i = 0 THEN [valid |-> FALSE, unit |-> Undefined]
        ELSE [valid |-> TRUE, unit |-> allUnits[i]]

\* units.find(u => u.serialNumber === qrSerialNumber), then the comparison of the
\* stored code with the supplied one; unit is Undefined when the result has none
verifyProductIdentity(allUnits, qrSerialNumber, inputAuthCode) ==
    LET i == FindIndex(allUnits, LAMBDA u : u.serialNumber = qrSerialNumber)
    IN  IF i = 0 \/ allUnits[i].uniqueAuthHash = Undefined
        THEN [valid |-> FALSE, unit |-> Undefined]
        ELSE IF allUnits[i].uniqueAuthHash = inputAuthCode
             THEN [valid |-> TRUE, unit |-> allUnits[i]]
             ELSE [valid |-> FALSE, unit |-> Undefined]

\* verifyProcess of the chatbot: the result is only shown
verifyProcess(scannedSerial, inputCode) ==
    /\ LET result == verifyProductIdentity(units, scannedSerial, inputCode)
       IN  last' = [op |-> "verifyProductIdentity", ok |-> result.valid, after |-> <<>>,
                    scannedSerial |-> scannedSerial, inputCode |-> inputCode,
                    result |-> result]
    /\ UNCHANGED <<products, units, bulkStock, orders, settings, carts, generatedSerials,
                   saving, nextId, nextOrderId>>

----------------------------------------------------------------------------
(* The serial domain: generation, production of serialized units, deletion *)

NextSerial ==
    \/ \E m \in Manufacturers, qty \in 1..MaxBatch : GenerateSerials(m, qty)
    \/ \E m \in Manufacturers : ProductionSubmitSerialized(m)
    \/ \E m \in Manufacturers : ProductionResume(m)
    \/ \E unitId \in 1..MaxIds : unitId < nextId /\ deleteProductUnit(unitId)
    \/ \E productId \in 1..MaxIds : productId < nextId /\ deleteProduct(productId)

SpecSerial == Init /\ [][NextSerial]_vars

----------------------------------------------------------------------------
(* The unit lifecycle on a serialized product.  The initial state is the one   *)
(* reached from Init by one Generate click for two serials and the production  *)
(* of that product.                                                            *)

InitTxn ==
    /\ products = <<Product(1, "m1", TRUE)>>
    /\ units = <<NewUnit(2, 1, toString(SerialRangeStart), "m1"),
                 NewUnit(3, 1, toString(SerialRangeStart + 1), "m1")>>
    /\ bulkStock = <<>>
    /\ orders = <<>>
    /\ settings = GlobalSettings(<<>>)
    /\ carts = [b \in Buyers |-> <<>>]
    /\ generatedSerials = [m \in Manufacturers |-> <<>>]
    /\ saving = [m \in Manufacturers |-> Idle]
    /\ nextId = 4
    /\ nextOrderId = 1
    /\ last = [op |-> "init", ok |-> TRUE, after |-> <<>>]

\* the ids of the units in the collection, as the ascending lists of each non-empty subset
UnitIdLists ==
    {Ascending(S) : S \in (SUBSET {units[i].id : i \in 1..Len(units)}) \ {{}}}

\* the ids of all orders created so far
OrderIds == {OrderId(n) : n \in 1..(nextOrderId - 1)}

\* a buyer's line for a product of the catalog, with the catalog's serialized flag
BuyerItems ==
    {CartItem(products[i].id, sellerId, quantity, products[i].isSerialized) :
        i \in 1..Len(products), sellerId \in Sellers, quantity \in 1..MaxQty}

\* checkouts of one or two lines
BuyerCarts == {<<x>> : x \in BuyerItems} \cup {<<x, y>> : x \in BuyerItems, y \in BuyerItems}

\* a manufacturer's cart lines: a serialized line names units, a bulk line a quantity
SerializedDispatchItems ==
    {[productId |-> units[UnitIndex(units, ids[1])].productId, quantity |-> Len(ids),
      isSerialized |-> TRUE, unitIds |-> ids] : ids \in UnitIdLists}

BulkDispatchItems ==
    {[productId |-> products[i].id, quantity |-> quantity,
      isSerialized |-> FALSE, unitIds |-> <<>>] :
        i \in {n \in 1..Len(products) : ~products[n].isSerialized}, quantity \in 1..MaxQty}

NextTxn ==
    \/ \E m \in Manufacturers, s \in Sellers, item \in SerializedDispatchItems :
           confirmDispatch(m, s, <<item>>)
    \/ \E b \in Buyers, quantity \in 1..MaxQty :
           processCheckout(b, <<CartItem(1, "s1", quantity, TRUE)>>)
    \/ \E o \in OrderIds : fulfillOrder(o, FALSE, <<>>)
    \/ \E o \in OrderIds, ids \in UnitIdLists : fulfillOrder(o, TRUE, ids)
    \/ \E o \in OrderIds : handleConfirmDelivery(o)
    \/ \E o \in OrderIds : cancelOrder(o)
    \/ \E o \in OrderIds : requestOrderReturn(o)
    \/ \E o \in OrderIds, accept \in BOOLEAN : processBuyerReturn(o, accept)
    \/ \E ids \in UnitIdLists : returnUnitsToManufacturer(ids)
    \/ \E i \in 1..Len(units) : deleteProductUnit(units[i].id)

SpecTxn == InitTxn /\ [][NextTxn]_vars

----------------------------------------------------------------------------
(* Checkout on a catalog with a serialized and a bulk product.  The initial    *)
(* state is reached from Init by one Generate click for two serials, the       *)
(* production of that product, the production of a bulk product and one        *)
(* addToCart by each buyer.                                                    *)

InitCheckout ==
    /\ products = <<Product(1, "m1", TRUE), Product(4, "m1", FALSE)>>
    /\ units = <<NewUnit(2, 1, toString(SerialRangeStart), "m1"),
                 NewUnit(3, 1, toString(SerialRangeStart + 1), "m1")>>
    /\ bulkStock = <<BulkStock(4, "m1", MaxQty)>>
    /\ orders = <<>>
    /\ settings = GlobalSettings(<<>>)
    /\ carts = [b \in Buyers |-> IF b = "b1" THEN <<CartItem(1, "s1", 1, TRUE)>>
                                 ELSE <<CartItem(4, "s1", 1, FALSE)>>]
    /\ generatedSerials = [m \in Manufacturers |-> <<>>]
    /\ saving = [m \in Manufacturers |-> Idle]
    /\ nextId = 5
    /\ nextOrderId = 1
    /\ last = [op |-> "init", ok |-> TRUE, after |-> <<>>]

NextCheckout ==
    \/ \E m \in Manufacturers, s \in Sellers,
          item \in SerializedDispatchItems \cup BulkDispatchItems :
           confirmDispatch(m, s, <<item>>)
    \/ \E b \in Buyers, cartItems \in BuyerCarts : processCheckout(b, cartItems)
    \/ \E o \in OrderIds : cancelOrder(o)
    \/ \E o \in OrderIds, accept \in BOOLEAN : processBuyerReturn(o, accept)

SpecCheckout == InitCheckout /\ [][NextCheckout]_vars

----------------------------------------------------------------------------
(* The bulk ledger.  The initial state is reached from Init by productions of   *)
(* bulk products and their deletion by deleteProduct, which leave the store    *)
(* empty and one id to use: one bulk product is produced.                      *)

InitBulk ==
    /\ products = <<>>
    /\ units = <<>>
    /\ bulkStock = <<>>
    /\ orders = <<>>
    /\ settings = GlobalSettings(<<>>)
    /\ carts = [b \in Buyers |-> <<>>]
    /\ generatedSerials = [m \in Manufacturers |-> <<>>]
    /\ saving = [m \in Manufacturers |-> Idle]
    /\ nextId = MaxIds
    /\ nextOrderId = 1
    /\ last = [op |-> "init", ok |-> TRUE, after |-> <<>>]

Owners == Manufacturers \cup Sellers

ProductIds == {products[i].id : i \in 1..Len(products)}

NextBulk ==
    \/ \E m \in Manufacturers, qty \in 1..MaxQty : ProductionSubmitBulk(m, qty)
    \/ \E productId \in ProductIds, from \in Owners, to \in Owners, quantity \in 1..MaxQty :
           from # to /\ transferBulkStock(productId, from, to, quantity)
    \/ \E b \in Buyers, cartItems \in BuyerCarts : processCheckout(b, cartItems)
    \/ \E o \in OrderIds : cancelOrder(o)
    \/ \E o \in OrderIds, accept \in BOOLEAN : processBuyerReturn(o, accept)
    \/ \E productId \in ProductIds, s \in Sellers, quantity \in 1..MaxQty :
           returnBulkToManufacturer(productId, s, quantity)

SpecBulk == InitBulk /\ [][NextBulk]_vars

----------------------------------------------------------------------------
(* Scanning the QR codes of units.  The initial state is reached from Init by   *)
(* one Generate click for MaxBatch serials and the production of that product.  *)

InitQR ==
    /\ products = <<Product(1, "m1", TRUE)>>
    /\ units = [k \in 1..MaxBatch |->
                   NewUnit(k + 1, 1, toString(SerialRangeStart + k - 1), "m1")]
    /\ bulkStock = <<>>
    /\ orders = <<>>
    /\ settings = GlobalSettings(<<>>)
    /\ carts = [b \in Buyers |-> <<>>]
    /\ generatedSerials = [m \in Manufacturers |-> <<>>]
    /\ saving = [m \in Manufacturers |-> Idle]
    /\ nextId = MaxBatch + 2
    /\ nextOrderId = 1
    /\ last = [op |-> "init", ok |-> TRUE, after |-> <<>>]

\* the text of the QR code the manufacturer view renders for a unit
QRTexts == {getSignedQRData(CharCodes(units[i].serialNumber)) : i \in 1..Len(units)}

\* the characters a tampered code may carry: '0', ':', 'L', 'X', 'a'
TamperCodes == {48, 58, 76, 88, 97}

\* text with the character at pos replaced by code
ReplaceAt(text, pos, code) == [text EXCEPT ![pos] = code]

NextQR ==
    \/ \E text \in QRTexts : handleScanSuccess(text)
    \/ \E text \in QRTexts, pos \in 1..20, code \in TamperCodes :
           /\ pos <= Len(text)
           /\ text[pos] # code
           /\ handleScanSuccess(ReplaceAt(text, pos, code))

SpecQR == InitQR /\ [][NextQR]_vars

----------------------------------------------------------------------------
(* Checkout with line quantities that need not be positive, from the initial   *)
(* state of SpecCheckout.                                                       *)

\* a line for a product of the catalog with a quantity of -1, 0 or more
AnyQuantityItems ==
    {CartItem(products[i].id, sellerId, quantity, products[i].isSerialized) :
        i \in 1..Len(products), sellerId \in Sellers, quantity \in (-1)..MaxQty}

NextQuantity ==
    \/ \E m \in Manufacturers, s \in Sellers,
          item \in SerializedDispatchItems \cup BulkDispatchItems :
           confirmDispatch(m, s, <<item>>)
    \/ \E b \in Buyers, item \in AnyQuantityItems : processCheckout(b, <<item>>)
    \/ \E o \in OrderIds : cancelOrder(o)

SpecQuantity == InitCheckout /\ [][NextQuantity]_vars

----------------------------------------------------------------------------
(* Fulfilment by the seller, from the initial state of SpecCheckout: orders of *)
(* a bulk product carry no reserved units.                                      *)

NextFulfil ==
    \/ \E m \in Manufacturers, s \in Sellers,
          item \in SerializedDispatchItems \cup BulkDispatchItems :
           confirmDispatch(m, s, <<item>>)
    \/ \E b \in Buyers, item \in BuyerItems : processCheckout(b, <<item>>)
    \/ \E o \in OrderIds : fulfillOrder(o, FALSE, <<>>)
    \/ \E o \in OrderIds, ids \in UnitIdLists : fulfillOrder(o, TRUE, ids)

SpecFulfil == InitCheckout /\ [][NextFulfil]_vars

----------------------------------------------------------------------------
(* Delivery, returns and cancellation, from the initial state of SpecCheckout, *)
(* while the manufacturer may delete a product.                                *)

NextReturn ==
    \/ \E m \in Manufacturers, s \in Sellers,
          item \in SerializedDispatchItems \cup BulkDispatchItems :
           confirmDispatch(m, s, <<item>>)
    \/ \E b \in Buyers, item \in BuyerItems : processCheckout(b, <<item>>)
    \/ \E o \in OrderIds : handleConfirmDelivery(o)
    \/ \E o \in OrderIds : requestOrderReturn(o)
    \/ \E o \in OrderIds, accept \in BOOLEAN : processBuyerReturn(o, accept)
    \/ \E o \in OrderIds : cancelOrder(o)
    \/ \E i \in 1..Len(products) : deleteProduct(products[i].id)

SpecReturn == InitCheckout /\ [][NextReturn]_vars

----------------------------------------------------------------------------
(* Transfers of one bulk product between its owners, a null destination        *)
(* included, from the empty store of SpecBulk.                                 *)

Destinations == Owners \cup {Undefined}

NextTransfer ==
    \/ \E m \in Manufacturers, qty \in 1..MaxStock : ProductionSubmitBulk(m, qty)
    \/ \E productId \in ProductIds, from \in Owners, to \in Destinations,
          quantity \in 1..MaxStock :
           from # to /\ transferBulkStock(productId, from, to, quantity)

SpecTransfer == InitBulk /\ [][NextTransfer]_vars

----------------------------------------------------------------------------
(* Verification while units are deleted, from the initial state of SpecQR.     *)

\* the serials a scan may carry: those of the range and the one after it
ScannedSerials == {toString(SerialRangeStart + k) : k \in 0..MaxBatch}

\* the codes a buyer may type: the digests of those serials and a wrong text
InputCodes ==
    {generateSecureHash(serial, m) : serial \in ScannedSerials, m \in Manufacturers}
        \cup {<<"wrong">>}

NextVerify ==
    \/ \E serial \in ScannedSerials, code \in InputCodes : verifyProcess(serial, code)
    \/ \E i \in 1..Len(units) : deleteProductUnit(units[i].id)

SpecVerify == InitQR /\ [][NextVerify]_vars

----------------------------------------------------------------------------
(* Dispatch of a cart that was filled in the initial state of SpecQR with all  *)
(* its units, while units are marked defective and deleted.                    *)

\* the cart line the manufacturer added when every unit was IN_FACTORY
SelectedUnitIds == [k \in 1..MaxBatch |-> k + 1]

DispatchCartItem ==
    [productId |-> 1, quantity |-> MaxBatch, isSerialized |-> TRUE,
     unitIds |-> SelectedUnitIds]

NextDispatch ==
    \/ \E m \in Manufacturers, s \in Sellers : confirmDispatch(m, s, <<DispatchCartItem>>)
    \/ \E ids \in UnitIdLists : returnUnitsToManufacturer(ids)
    \/ \E i \in 1..Len(units) : deleteProductUnit(units[i].id)
    \/ \E b \in Buyers : processCheckout(b, <<CartItem(1, "s1", 1, TRUE)>>)

SpecDispatch == InitQR /\ [][NextDispatch]_vars

----------------------------------------------------------------------------
(* Properties of the serial domain *)

Take(s, n) == SubSeq(s, 1, IF n < Len(s) THEN n ELSE Len(s))

Strings(nums) == [i \in 1..Len(nums) |-> toString(nums[i])]

LiveNumbers == UsedNumbers(units)

\* C1: no two live units have the same serial number.
SerialsUnique ==
    \A i, j \in 1..Len(units) :
        i # j => units[i].serialNumber # units[j].serialNumber

\* C7: no number of the reclaim pool is the numeric serial of a live unit.
PoolDisjointFromLive ==
    Range(settings.recycledSerials) \cap LiveNumbers = {}

\* C8: deleting a live unit with numeric serial S and then allocating one serial
\* returns exactly [S], when S is the lowest number of the pool after the deletion
\* and no live unit uses S.
ReclaimRoundTrip ==
    (/\ last.op = "generateNextSerialBatch"
     /\ last.quantity = 1
     /\ last.after # <<>>
     /\ last.after[1].deleted # <<>>
     /\ LET S == parseInt(last.after[1].deleted[1].serialNumber)
        IN  /\ S # NaN
            /\ \A x \in Range(last.preSettings.recycledSerials) : S <= x
            /\ S \notin UsedNumbers(last.preUnits))
    => (last.ok /\ last.generated = <<last.after[1].deleted[1].serialNumber>>)

\* C8 witness: a unit was deleted and the next call, an allocation of one serial,
\* returned the deleted unit's serial while the pool held a larger number too.
ReclaimRoundTripReached ==
    /\ last.op = "generateNextSerialBatch"
    /\ last.quantity = 1
    /\ last.after # <<>>
    /\ last.after[1].deleted # <<>>
    /\ Len(last.preSettings.recycledSerials) > 1
    /\ last.generated = <<last.after[1].deleted[1].serialNumber>>

\* what C10 says an allocation of n returns from pool, live numbers and range
ExpectedBatch(n, st, allUnits) ==
    LET used == UsedNumbers(allUnits)
        fromPool == Take(Ascending(Range(st.recycledSerials) \ used), n)
        fresh == Ascending((st.serialRangeStart..st.serialRangeEnd) \ used)
    IN  Strings(fromPool \o Take(fresh, n - Len(fromPool)))

\* C10: a successful generateNextSerialBatch(n) returns n numbers: the pool
\* numbers not in use, ascending, then the lowest numbers of the range not in use,
\* ascending; from an empty pool and no units, allocate(3) returns the first three
\* numbers of the range.
BatchOrder ==
    (last.op = "generateNextSerialBatch" /\ last.ok)
    => /\ Len(last.generated) = last.quantity
       /\ last.generated = ExpectedBatch(last.quantity, last.preSettings, last.preUnits)
       /\ (/\ last.quantity = 3
           /\ last.preUnits = <<>>
           /\ last.preSettings.recycledSerials = <<>>)
          => last.generated = <<toString(SerialRangeStart),
                                toString(SerialRangeStart + 1),
                                toString(SerialRangeStart + 2)>>

\* C10 witness: an allocation drew first from the pool and then from the range,
\* with a live unit's number skipped.
BatchOrderReached ==
    /\ last.op = "generateNextSerialBatch"
    /\ last.ok
    /\ last.quantity = 2
    /\ last.preSettings.recycledSerials # <<>>
    /\ last.preUnits # <<>>
    /\ parseInt(last.generated[1]) \in Range(last.preSettings.recycledSerials)
    /\ parseInt(last.generated[2]) \notin Range(last.preSettings.recycledSerials)


\* C11: a number returned by an allocation is not returned by the allocation that
\* directly follows it, nothing having been reclaimed in between.
AllocationReserves ==
    [][(/\ last.op = "generateNextSerialBatch" /\ last.ok
        /\ last'.op = "generateNextSerialBatch" /\ last'.ok)
          => Range(last.generated) \cap Range(last'.generated) = {}]_vars

\* C12: an allocation that fails with the range-exhausted error leaves the saved
\* settings, reclaim pool included, and the units as they were before the call.
FailedAllocationKeepsState ==
    (last.op = "generateNextSerialBatch" /\ ~last.ok)
    => (settings = last.preSettings /\ units = last.preUnits)

\* an allocation has failed after taking a number from the pool
FailedAllocationReached ==
    /\ last.op = "generateNextSerialBatch"
    /\ ~last.ok
    /\ last.preSettings.recycledSerials # <<>>
    /\ Range(last.preSettings.recycledSerials) \cap UsedNumbers(last.preUnits) = {}
    /\ settings.recycledSerials # <<>>

----------------------------------------------------------------------------
(* Properties of the unit lifecycle *)

\* the unit status that goes with an order status
UnitStatusFor(orderStatus) ==
    CASE orderStatus \in {"Awaiting Confirmation", "Confirmed", "Delivered"} -> "SOLD_TO_BUYER"
      [] orderStatus = "Return Requested" -> "RETURN_REQUESTED"
      [] orderStatus = "Returned" -> "RETURNED_TO_SELLER"

\* C5: every unit id reserved by an order points to a unit whose status matches
\* the order's status.
OrderUnitsConsistent ==
    \A i \in 1..Len(orders) : \A k \in 1..Len(orders[i].assignedUnitIds) :
        LET j == UnitIndex(units, orders[i].assignedUnitIds[k])
        IN  j > 0 /\ units[j].status = UnitStatusFor(orders[i].status)

\* C6: a unit at a seller has a reseller reference and a unit sold or in return
\* has a buyer reference.
StatusMatchesOwners ==
    \A i \in 1..Len(units) :
        /\ units[i].status \in {"AT_SELLER", "RETURNED_TO_SELLER"}
              => units[i].sellerId # Undefined
        /\ units[i].status \in {"SOLD_TO_BUYER", "RETURN_REQUESTED"}
              => units[i].buyerId # Undefined

----------------------------------------------------------------------------
(* Properties of checkout and cancellation *)

\* what the resolved seller of a line item has available: the seller's units of
\* the product that are AT_SELLER or RETURNED_TO_SELLER, or the seller's bulk quantity
AvailableFor(item) ==
    LET sellerId == ResolveSeller(item, products)
    IN  IF item.isSerialized
        THEN Cardinality({i \in 1..Len(units) :
                             /\ units[i].productId = item.productId
                             /\ units[i].sellerId = sellerId
                             /\ units[i].status \in {"AT_SELLER", "RETURNED_TO_SELLER"}})
        ELSE LET i == StockIndex(bulkStock, item.productId, sellerId)
             IN  IF i > 0 THEN bulkStock[i].quantity ELSE 0

Underfunded(cartItems) ==
    \E k \in 1..Len(cartItems) : cartItems[k].quantity > AvailableFor(cartItems[k])

\* the line items a successful checkout was called with, read off its orders
LinesOf(newOrders) ==
    [k \in 1..Len(newOrders) |->
        CartItem(newOrders[k].productId, newOrders[k].sellerId, newOrders[k].quantity,
                 newOrders[k].hasAssignedUnitIds)]

\* C2: a checkout of several line items of which one, at any position, asks for
\* more than its seller has available fails and leaves units, bulk stock, orders
\* and carts unchanged: no checkout of several lines succeeds with a line that
\* was underfunded in the state it was called in, and a failed checkout changes
\* none of the four.
CheckoutAtomic ==
    [][last'.op = "processCheckout" =>
          /\ (last'.ok /\ Len(last'.newOrders) > 1) => ~Underfunded(LinesOf(last'.newOrders))
          /\ ~last'.ok => UNCHANGED <<units, bulkStock, orders, carts>>]_vars

\* a two-line checkout has failed on its second line, the first line being funded
CheckoutAtomicReached ==
    /\ last.op = "processCheckout"
    /\ ~last.ok
    /\ last.lines = 2
    /\ last.failedLine = 2

\* C4: cancelling the order a checkout has just created puts the reserved units'
\* status, buyer and sale date, and every bulk quantity, back to their values
\* before that checkout.
CancelRestoresCheckout ==
    (last.op = "cancelOrder" /\ last.ok /\ last.after # <<>>) =>
        LET co == last.after[1]
        IN  (co.ok /\ Len(co.newOrders) = 1 /\ co.newOrders[1].id = last.orderId) =>
                /\ \A k \in 1..Len(co.newOrders[1].assignedUnitIds) :
                       LET i == UnitIndex(units, co.newOrders[1].assignedUnitIds[k])
                           j == UnitIndex(co.preUnits, co.newOrders[1].assignedUnitIds[k])
                       IN  /\ i > 0 /\ j > 0
                           /\ units[i].status = co.preUnits[j].status
                           /\ units[i].buyerId = co.preUnits[j].buyerId
                           /\ units[i].dateSold = co.preUnits[j].dateSold
                /\ bulkStock = co.preStock

----------------------------------------------------------------------------
(* Properties of the bulk ledger *)

QuantityOf(allStock, productId, ownerId) ==
    LET i == StockIndex(allStock, productId, ownerId)
    IN  IF i > 0 THEN allStock[i].quantity ELSE 0

\* C3: no BulkStock quantity is negative.
StockNonNegative == \A i \in 1..Len(bulkStock) : bulkStock[i].quantity >= 0

\* last is transfer(P, B, A, q) and the operation before it was transfer(P, A, B, q)
TransferredBack ==
    /\ last.op = "transferBulkStock"
    /\ last.after # <<>>
    /\ last.after[1].productId = last.productId
    /\ last.after[1].from = last.to
    /\ last.after[1].to = last.from
    /\ last.after[1].quantity = last.quantity

BalancesRestored ==
    /\ QuantityOf(bulkStock, last.productId, last.to) = last.after[1].preFrom
    /\ QuantityOf(bulkStock, last.productId, last.from) = last.after[1].preTo

\* C9 as stated: transfer(P, A, B, q) followed by transfer(P, B, A, q) leaves both
\* balances at their values before the first transfer, whatever A held.
TransferRoundTripAlways == TransferredBack => BalancesRestored

\* C9: transfer(P, A, B, q) followed by transfer(P, B, A, q) leaves both balances
\* at their values before the first transfer, provided A held at least q and B's
\* balance was not negative.
TransferRoundTrip ==
    (/\ TransferredBack
     /\ last.after[1].preFrom >= last.quantity
     /\ last.after[1].preTo >= 0) => BalancesRestored

\* a funded transfer to an owner without a record has been sent back
TransferRoundTripReached ==
    /\ TransferredBack
    /\ last.after[1].preFrom >= last.quantity
    /\ last.after[1].preTo = 0

\* C13: a checkout of one bulk line of quantity q against a seller holding s
\* takes q from the seller and adds exactly one order, Awaiting Confirmation with
\* quantity q, when q <= s; it is rejected, with the quantity and the orders
\* unchanged, when q > s.
BulkCheckoutScenario ==
    [][last'.op = "processCheckout" =>
          \A b \in Buyers, item \in {x \in BuyerItems : ~x.isSerialized} :
              processCheckout(b, <<item>>) =>
                  LET sellerId == ResolveSeller(item, products)
                      held == QuantityOf(bulkStock, item.productId, sellerId)
                  IN  IF item.quantity <= held
                      THEN /\ last'.ok
                           /\ QuantityOf(bulkStock', item.productId, sellerId)
                                  = held - item.quantity
                           /\ Len(orders') = Len(orders) + 1
                           /\ SubSeq(orders', 1, Len(orders)) = orders
                           /\ orders'[Len(orders')].status = "Awaiting Confirmation"
                           /\ orders'[Len(orders')].quantity = item.quantity
                           /\ orders'[Len(orders')].productId = item.productId
                      ELSE /\ ~last'.ok
                           /\ bulkStock' = bulkStock
                           /\ orders' = orders]_vars

\* a checkout of one bulk line has been rejected after an earlier one came through
BulkCheckoutScenarioReached ==
    /\ last.op = "processCheckout"
    /\ ~last.ok
    /\ last.lines = 1
    /\ \E i \in 1..Len(orders) :
           /\ ~orders[i].hasAssignedUnitIds
           /\ orders[i].status = "Awaiting Confirmation"
           /\ QuantityOf(bulkStock, orders[i].productId, orders[i].sellerId)
                  \in 0..(MaxQty - 1)

----------------------------------------------------------------------------
(* Properties of QR signing *)

\* C14: the scan of the signed QR text of a serial S is valid and yields S.
SignedQRVerifies ==
    \A i \in 1..Len(units) :
        (/\ last.op = "handleScanSuccess"
         /\ last.decodedText = getSignedQRData(CharCodes(units[i].serialNumber)))
        => /\ last.validation.valid
           /\ last.validation.serialNumber = CharCodes(units[i].serialNumber)

\* the signed text of a unit's serial has been scanned
SignedQRVerifiesReached ==
    /\ last.op = "handleScanSuccess"
    /\ last.decodedText \in QRTexts
    /\ last.validation.valid

\* last is the scan of text with the character at pos replaced by another one
TamperedScan(text, pos) ==
    /\ last.op = "handleScanSuccess"
    /\ Len(last.decodedText) = Len(text)
    /\ last.decodedText[pos] # text[pos]
    /\ \A j \in 1..Len(text) : j # pos => last.decodedText[j] = text[j]

\* C15 as stated: a signed text with any one character replaced is invalid with
\* the digest-mismatch reason, wherever the character lies.
TamperedQRForged ==
    \A text \in QRTexts : \A pos \in 1..Len(text) :
        TamperedScan(text, pos)
        => (~last.validation.valid /\ last.validation.error = "Forged QR Code")

\* the second ':' of a signed text
SeparatorAt(text) == CHOOSE pos \in 4..Len(text) : text[pos] = 58 /\ \A j \in 4..(pos - 1) : text[j] # 58

\* C15: a signed text with any one character replaced is invalid; the reason is
\* the prefix mismatch for a character of 'LS:', the malformed structure for the
\* separator or for a ':' put in the serial or the signature, and the digest
\* mismatch for any other change of the serial or the signature.
TamperedQRRejected ==
    \A text \in QRTexts : \A pos \in 1..Len(text) :
        TamperedScan(text, pos)
        => /\ ~last.validation.valid
           /\ last.validation.error =
                 (IF pos <= 3 THEN "External QR Code Detected"
                  ELSE IF pos = SeparatorAt(text) \/ last.decodedText[pos] = 58
                  THEN "Malformed QR Data"
                  ELSE "Forged QR Code")

\* a scan with a changed serial digit and one with a changed signature character
\* were both met with the digest mismatch
TamperedQRRejectedReached ==
    /\ last.op = "handleScanSuccess"
    /\ last.validation.error = "Forged QR Code"
    /\ \E text \in QRTexts :
           TamperedScan(text, 4) \/ TamperedScan(text, Len(text))

----------------------------------------------------------------------------
(* Properties of order handling *)

\* C16: a checkout with a line whose quantity is zero or negative is rejected
\* and changes nothing, so that no order has a quantity that is not positive.
NonPositiveQuantityRejected ==
    [][last'.op = "processCheckout" =>
          \A b \in Buyers, item \in AnyQuantityItems :
              (item.quantity <= 0 /\ processCheckout(b, <<item>>))
                  => (~last'.ok /\ UNCHANGED <<units, bulkStock, orders, carts>>)]_vars

\* C17: fulfillOrder with unit ids on an order without reserved units confirms
\* the order and sells the units to its buyer when the ids are no more than the
\* order quantity and every unit is AT_SELLER; otherwise it changes neither the
\* order nor any unit.
FulfilGuarded ==
    [][last'.op = "fulfillOrder" =>
          \A o \in OrderIds, ids \in UnitIdLists :
              LET i == OrderIndex(orders, o)
                  allowed == /\ Len(ids) <= orders[i].quantity
                             /\ \A k \in 1..Len(ids) :
                                    units[UnitIndex(units, ids[k])].status = "AT_SELLER"
              IN  (/\ i > 0
                   /\ Len(orders[i].assignedUnitIds) = 0
                   /\ fulfillOrder(o, TRUE, ids))
                  => IF allowed
                     THEN /\ orders'[i].status = "Confirmed"
                          /\ \A k \in 1..Len(ids) :
                                 LET j == UnitIndex(units, ids[k])
                                 IN  /\ units'[j].status = "SOLD_TO_BUYER"
                                     /\ units'[j].buyerId = orders[i].buyerId
                     ELSE UNCHANGED <<orders, units>>]_vars

\* C18: cancelOrder on an order that is Delivered, Return Requested or Returned
\* is a no-op: the order stays, no unit changes and no bulk stock is credited.
CancelAfterDeliveryRejected ==
    [][last'.op = "cancelOrder" =>
          \A o \in OrderIds :
              (/\ \E k \in 1..Len(orders) :
                      /\ orders[k].id = o
                      /\ orders[k].status \in {"Delivered", "Return Requested", "Returned"}
               /\ cancelOrder(o))
              => UNCHANGED <<orders, units, bulkStock>>]_vars

\* the order id is not in the orders collection
Missing(o) == \A k \in 1..Len(orders) : orders[k].id # o

\* C19: fulfillOrder, cancelOrder, requestOrderReturn and processBuyerReturn
\* called with an order id that is not in the orders collection change neither
\* the units, nor the bulk stock, nor the orders.
UnknownOrderNoOp ==
    [][last'.op \in {"fulfillOrder", "cancelOrder", "requestOrderReturn",
                     "processBuyerReturn"} =>
          \A o \in OrderIds :
              (/\ Missing(o)
               /\ \/ fulfillOrder(o, FALSE, <<>>)
                  \/ \E ids \in UnitIdLists : fulfillOrder(o, TRUE, ids)
                  \/ cancelOrder(o)
                  \/ requestOrderReturn(o)
                  \/ \E accept \in BOOLEAN : processBuyerReturn(o, accept))
              => UNCHANGED <<units, bulkStock, orders>>]_vars

\* one of the four operations has just been called with the id of a cancelled
\* order while another order is in the collection
UnknownOrderNoOpReached ==
    /\ last.op \in {"fulfillOrder", "cancelOrder", "requestOrderReturn",
                    "processBuyerReturn"}
    /\ ~last.ok
    /\ Len(orders) = 1
    /\ nextOrderId = 3
    /\ \E o \in OrderIds : Missing(o)

\* C20: deleteProduct on a product that a unit or a bulk stock record with a
\* positive quantity still refers to deletes nothing and leaves the products,
\* the units, the bulk stock and the reclaim pool unchanged.
DeleteOnlyUnreferenced ==
    [][last'.op = "deleteProduct" =>
          \A productId \in 1..MaxIds :
              (/\ \/ \E i \in 1..Len(units) : units[i].productId = productId
                  \/ \E i \in 1..Len(bulkStock) :
                         bulkStock[i].productId = productId /\ bulkStock[i].quantity > 0
               /\ deleteProduct(productId))
              => UNCHANGED <<products, units, bulkStock, settings>>]_vars

\* the records of allStock kept for a product and an owner
RecordsOf(allStock, productId, ownerId) ==
    {k \in 1..Len(allStock) :
        allStock[k].productId = productId /\ allStock[k].ownerId = ownerId}

\* C21: cancelOrder on an existing order removes the order; if the order has
\* reserved units each of them ends AT_SELLER with buyer and sale date cleared
\* and no bulk quantity changes; otherwise no unit changes and the order
\* quantity is added to the seller's stock record of the product, which is
\* created when the seller has none.
CancelEffect ==
    [][(last'.op = "cancelOrder" /\ last'.ok) =>
          \E i \in 1..Len(orders) :
              LET order == orders[i]
                  before == RecordsOf(bulkStock, order.productId, order.sellerId)
                  held == IF before = {} THEN 0
                          ELSE bulkStock[CHOOSE k \in before : TRUE].quantity
              IN  /\ order.id = last'.orderId
                  /\ orders' = [k \in 1..(Len(orders) - 1) |->
                                   IF k < i THEN orders[k] ELSE orders[k + 1]]
                  /\ IF Len(order.assignedUnitIds) > 0
                     THEN /\ Len(units') = Len(units)
                          /\ \A j \in 1..Len(units) :
                                 units[j].id \in Range(order.assignedUnitIds)
                                     => /\ units'[j].id = units[j].id
                                        /\ units'[j].status = "AT_SELLER"
                                        /\ units'[j].buyerId = Undefined
                                        /\ units'[j].dateSold = Undefined
                          /\ bulkStock' = bulkStock
                     ELSE /\ units' = units
                          /\ Len(bulkStock') = Len(bulkStock) + (IF before = {} THEN 1 ELSE 0)
                          /\ \E k \in RecordsOf(bulkStock', order.productId, order.sellerId) :
                                 bulkStock'[k].quantity = held + order.quantity
                          /\ \A k \in 1..Len(bulkStock) :
                                 k \notin before => bulkStock'[k] = bulkStock[k]]_vars

\* a unit that a checkout had sold is AT_SELLER without a buyer after the
\* cancellation of its order
CancelEffectReached ==
    /\ last.op = "cancelOrder" /\ last.ok /\ last.after # <<>>
    /\ last.after[1].ok
    /\ \E k \in 1..Len(last.after[1].newOrders) :
           LET order == last.after[1].newOrders[k]
           IN  /\ order.id = last.orderId
               /\ Len(order.assignedUnitIds) > 0
               /\ \A n \in 1..Len(order.assignedUnitIds) :
                      \E j \in 1..Len(units) :
                          /\ units[j].id = order.assignedUnitIds[n]
                          /\ units[j].status = "AT_SELLER"
                          /\ units[j].buyerId = Undefined

----------------------------------------------------------------------------
(* Properties of the unit transitions *)

\* C22: returnUnitsToManufacturer changes a unit to RETURNED_DEFECTIVE, with
\* its return date set, only if the unit is AT_SELLER or RETURNED_TO_SELLER; a
\* named unit in any other status is left unchanged, and the reclaim pool is
\* not touched.
MarkDefectiveGuarded ==
    [][last'.op = "returnUnitsToManufacturer" =>
          \A ids \in UnitIdLists :
              returnUnitsToManufacturer(ids) =>
                  /\ settings' = settings
                  /\ \A j \in 1..Len(units) :
                         units[j].id \in Range(ids) =>
                             IF units[j].status \in {"AT_SELLER", "RETURNED_TO_SELLER"}
                             THEN units'[j] = [units[j] EXCEPT !.status = "RETURNED_DEFECTIVE",
                                                               !.dateReturned = Today]
                             ELSE units'[j] = units[j]]_vars

\* C23: deleteProductUnit removes a unit only if it is IN_FACTORY or
\* RETURNED_DEFECTIVE, and then its numeric serial is in the reclaim pool;
\* on a unit in any other status it removes nothing and leaves the pool
\* unchanged.
DeleteUnitGuarded ==
    [][last'.op = "deleteProductUnit" =>
          \A j \in 1..Len(units) :
              deleteProductUnit(units[j].id) =>
                  IF units[j].status \in {"IN_FACTORY", "RETURNED_DEFECTIVE"}
                  THEN /\ \A k \in 1..Len(units') : units'[k].id # units[j].id
                       /\ parseInt(units[j].serialNumber) \in Range(settings'.recycledSerials)
                  ELSE /\ units' = units
                       /\ settings' = settings]_vars

\* the units of allUnits that an order has reserved
ReservedUnits(allUnits, order) ==
    {j \in 1..Len(allUnits) : allUnits[j].id \in Range(order.assignedUnitIds)}

\* C24: requestOrderReturn on a Delivered order whose reserved units are
\* SOLD_TO_BUYER moves the order to Return Requested and every reserved unit to
\* RETURN_REQUESTED, changes no other field of those units and changes no other
\* unit, no other order and no bulk quantity.
ReturnRequestEffect ==
    [][last'.op = "requestOrderReturn" =>
          \A i \in 1..Len(orders) :
              LET reserved == ReservedUnits(units, orders[i])
              IN  (/\ orders[i].status = "Delivered"
                   /\ reserved # {}
                   /\ \A j \in reserved : units[j].status = "SOLD_TO_BUYER"
                   /\ requestOrderReturn(orders[i].id))
                  => /\ orders' = [orders EXCEPT ![i].status = "Return Requested"]
                     /\ units' = [j \in 1..Len(units) |->
                                     IF j \in reserved
                                     THEN [units[j] EXCEPT !.status = "RETURN_REQUESTED"]
                                     ELSE units[j]]
                     /\ bulkStock' = bulkStock]_vars

\* the only order was marked delivered and its return was requested next: its
\* unit is RETURN_REQUESTED and still names the buyer and the sale date
ReturnRequestEffectReached ==
    /\ last.op = "requestOrderReturn" /\ last.ok
    /\ last.after # <<>>
    /\ Len(orders) = 1 /\ nextOrderId = 2
    /\ orders[1].status = "Return Requested"
    /\ ReservedUnits(units, orders[1]) # {}
    /\ \A j \in ReservedUnits(units, orders[1]) :
           /\ units[j].status = "RETURN_REQUESTED"
           /\ units[j].buyerId = orders[1].buyerId
           /\ units[j].dateSold = Today

\* C25: processBuyerReturn on a Return Requested order: accept moves the order
\* to Returned and every reserved unit of a serialized order to
\* RETURNED_TO_SELLER, or adds exactly the order quantity to the seller's
\* counter of the product for a bulk order; decline moves the order back to
\* Delivered and every reserved unit back to SOLD_TO_BUYER and changes no bulk
\* quantity.
ReturnDecisionEffect ==
    [][last'.op = "processBuyerReturn" =>
          \A i \in 1..Len(orders), accept \in BOOLEAN :
              LET order == orders[i]
                  reserved == ReservedUnits(units, order)
              IN  (order.status = "Return Requested" /\ processBuyerReturn(order.id, accept))
                  => IF accept
                     THEN /\ orders'[i].status = "Returned"
                          /\ IF order.hasAssignedUnitIds
                             THEN \A j \in reserved : units'[j].status = "RETURNED_TO_SELLER"
                             ELSE QuantityOf(bulkStock', order.productId, order.sellerId)
                                      = QuantityOf(bulkStock, order.productId, order.sellerId)
                                            + order.quantity
                     ELSE /\ orders'[i].status = "Delivered"
                          /\ \A j \in reserved : units'[j].status = "SOLD_TO_BUYER"
                          /\ bulkStock' = bulkStock]_vars

\* the edges of the order state machine
OrderEdges ==
    {<<"Awaiting Confirmation", "Confirmed">>,
     <<"Confirmed", "Delivered">>,
     <<"Delivered", "Return Requested">>,
     <<"Return Requested", "Returned">>,
     <<"Return Requested", "Delivered">>}

\* C26: the status of an order changes only along Awaiting Confirmation ->
\* Confirmed -> Delivered -> Return Requested -> Returned and Return Requested
\* -> Delivered; any other attempted step leaves the status unchanged.
OrderStatusEdges ==
    [][\A i \in 1..Len(orders), k \in 1..Len(orders') :
          orders'[k].id = orders[i].id =>
              \/ orders'[k].status = orders[i].status
              \/ <<orders[i].status, orders'[k].status>> \in OrderEdges]_vars

----------------------------------------------------------------------------
(* Properties of the stock records *)

\* C27: there is at most one BulkStock record for each product and owner; a
\* grant, a transfer credit and a cancellation credit add to the record of the
\* pair when there is one.
OneRecordPerOwner ==
    \A i \in 1..Len(bulkStock), j \in 1..Len(bulkStock) :
        (bulkStock[i].productId = bulkStock[j].productId
            /\ bulkStock[i].ownerId = bulkStock[j].ownerId) => i = j

\* a transfer has just credited an owner who already had a record, and a
\* cancellation before it had credited the seller's record
OneRecordPerOwnerReached ==
    /\ last.op = "transferBulkStock"
    /\ last.to # Undefined
    /\ last.preFrom >= last.quantity
    /\ RecordsOf(bulkStock, last.productId, last.to) # {}
    /\ last.preTo > 0
    /\ QuantityOf(bulkStock, last.productId, last.to) = last.preTo + last.quantity
    /\ nextOrderId > 1 + Len(orders)

\* C28: transferBulkStock(P, from, to, q) with q > 0 changes nothing when the
\* source has no record or holds less than q; otherwise the source decreases
\* by q and, when to is an owner, the destination increases by q, its record
\* being created with quantity q if absent; no other record changes.
TransferEffect ==
    [][last'.op = "transferBulkStock" =>
          LET P == last'.productId
              from == last'.from
              to == last'.to
              q == last'.quantity
              src == RecordsOf(bulkStock, P, from)
              dst == RecordsOf(bulkStock, P, to)
              others == (1..Len(bulkStock)) \ (src \cup dst)
          IN  IF src = {} \/ \A i \in src : bulkStock[i].quantity < q
              THEN bulkStock' = bulkStock
              ELSE /\ \A i \in src : bulkStock'[i] = [bulkStock[i] EXCEPT !.quantity = @ - q]
                   /\ \A k \in others : bulkStock'[k] = bulkStock[k]
                   /\ IF to = Undefined
                      THEN Len(bulkStock') = Len(bulkStock)
                      ELSE IF dst = {}
                           THEN bulkStock' = Append(SubSeq(bulkStock', 1, Len(bulkStock)),
                                                    BulkStock(P, to, q))
                           ELSE /\ Len(bulkStock') = Len(bulkStock)
                                /\ \A j \in dst :
                                       bulkStock'[j] = [bulkStock[j] EXCEPT !.quantity = @ + q]]_vars

\* a discard to the null destination has just debited the source, after a
\* transfer that the source could not fund
TransferEffectReached ==
    /\ last.op = "transferBulkStock"
    /\ last.to = Undefined
    /\ last.preFrom >= last.quantity
    /\ QuantityOf(bulkStock, last.productId, last.from) = last.preFrom - last.quantity
    /\ last.after # <<>>
    /\ last.after[1].preFrom < last.after[1].quantity

----------------------------------------------------------------------------
(* Properties of the reservation at checkout *)

\* the ids, in unit-collection order, of the units of allUnits a line for the
\* product and seller of order may take, those in taken left out
EligibleIds(allUnits, order, taken) ==
    LET eligible == SelectSeq(allUnits, LAMBDA u :
                        /\ u.productId = order.productId
                        /\ u.sellerId = order.sellerId
                        /\ u.status \in {"AT_SELLER", "RETURNED_TO_SELLER"}
                        /\ u.id \notin taken)
    IN  [n \in 1..Len(eligible) |-> eligible[n].id]

\* C29: on a successful checkout the order of every serialized line of
\* quantity N reserves exactly N unit ids, the first N eligible units of the
\* product and seller in unit-collection order; these units become
\* SOLD_TO_BUYER with the buyer set, and no id is reserved by two orders of the
\* checkout.
CheckoutReservesFirstN ==
    [][(last'.op = "processCheckout" /\ last'.ok) =>
          LET new == last'.newOrders
              TakenBefore(k) == UNION {Range(new[n].assignedUnitIds) : n \in 1..(k - 1)}
          IN  \A k \in 1..Len(new) :
                  new[k].hasAssignedUnitIds =>
                      LET eligible == EligibleIds(units, new[k], TakenBefore(k))
                          N == new[k].quantity
                      IN  /\ Len(new[k].assignedUnitIds) = N
                          /\ Len(eligible) >= N
                          /\ \A n \in 1..N : new[k].assignedUnitIds[n] = eligible[n]
                          /\ Range(new[k].assignedUnitIds) \cap TakenBefore(k) = {}
                          /\ \A j \in 1..Len(units) :
                                 units[j].id \in Range(new[k].assignedUnitIds) =>
                                     /\ units'[j].status = "SOLD_TO_BUYER"
                                     /\ units'[j].buyerId = new[k].buyerId]_vars

\* C30: no BulkStock record exists for a product whose flag is serialized and
\* no unit exists for a product whose flag is bulk.
LedgerFixedByFlag ==
    \A p \in 1..Len(products) :
        IF products[p].isSerialized
        THEN \A k \in 1..Len(bulkStock) : bulkStock[k].productId # products[p].id
        ELSE \A j \in 1..Len(units) : units[j].productId # products[p].id

----------------------------------------------------------------------------
(* Properties of verification *)

----------------------------------------------------------------------------
(* Properties of dispatch *)

\* C32: confirmDispatch moves a selected unit to AT_SELLER, with the seller and
\* the dispatch date set, only if the unit is IN_FACTORY when the dispatch
\* runs; a selected unit in another status is left unchanged and one that no
\* longer exists is not created again.
DispatchOnlyFromFactory ==
    [][last'.op = "confirmDispatch" =>
          \A m \in Manufacturers, s \in Sellers :
              confirmDispatch(m, s, <<DispatchCartItem>>) =>
                  /\ Len(units') = Len(units)
                  /\ \A j \in 1..Len(units) :
                         units'[j] =
                             IF units[j].id \in Range(SelectedUnitIds)
                                    /\ units[j].status = "IN_FACTORY"
                             THEN [units[j] EXCEPT !.status = "AT_SELLER",
                                                   !.sellerId = s,
                                                   !.dateSentToSeller = Today]
                             ELSE units[j]]_vars

\* the cart was dispatched after one of its units had been deleted and another
\* had been marked defective in the factory: the third is AT_SELLER
DispatchOnlyFromFactoryReached ==
    /\ last.op = "confirmDispatch"
    /\ Len(units) = MaxBatch - 1
    /\ \E i \in 1..Len(units) :
           units[i].status = "RETURNED_DEFECTIVE" /\ units[i].sellerId = Undefined
    /\ \E i \in 1..Len(units) :
           units[i].status = "AT_SELLER" /\ units[i].dateSentToSeller = Today

----------------------------------------------------------------------------
(* Properties of the suspension in saveProductBatch *)

\* C33: saveProductBatch suspends between its read and its write of the unit
\* collection: its resumption writes the snapshot it read before the
\* suspension plus the new units, whatever was committed in between; no other
\* operation suspends or resumes.
SnapshotOverwrites ==
    [][/\ last'.op = "saveProductBatchDone" =>
              \E m \in Manufacturers :
                  /\ saving[m].active
                  /\ units' = saving[m].allUnits \o saving[m].finalUnits
       /\ last'.op \notin {"saveProductBatch", "saveProductBatchDone"} =>
              saving' = saving]_vars

\* a unit was deleted during the suspension and the resumption has just put it
\* back: the deletion was overwritten
SnapshotOverwritesReached ==
    /\ last.op = "saveProductBatchDone"
    /\ last.after # <<>>
    /\ last.after[1].deleted # <<>>
    /\ \E i \in 1..Len(units) : units[i].id = last.after[1].deleted[1].id

----------------------------------------------------------------------------
(* Properties of one allocation *)

\* C34: the numbers one generateNextSerialBatch call returns are pairwise
\* distinct.
BatchDistinct ==
    (last.op = "generateNextSerialBatch" /\ last.ok) =>
        \A i \in 1..Len(last.generated), j \in 1..Len(last.generated) :
            last.generated[i] = last.generated[j] => i = j

----------------------------------------------------------------------------
(* Frame properties *)

\* the fields of a unit that are fixed at its creation
Identity(u) ==
    <<u.id, u.serialNumber, u.productId, u.manufacturerId, u.uniqueAuthHash>>

\* C35: dispatch, checkout, fulfillOrder, cancelOrder, return request, accept
\* and decline, and the defect mark leave the id, serial number, product,
\* producer and authenticity code of every unit unchanged.
UnitIdentityKept ==
    [][last'.op \in {"confirmDispatch", "processCheckout", "fulfillOrder", "cancelOrder",
                     "requestOrderReturn", "processBuyerReturn",
                     "returnUnitsToManufacturer"} =>
          /\ Len(units') = Len(units)
          /\ \A j \in 1..Len(units) : Identity(units'[j]) = Identity(units[j])]_vars

\* a unit that was dispatched, sold and marked defective still carries the code
\* computed from its serial and producer
UnitIdentityKeptReached ==
    /\ last.op = "returnUnitsToManufacturer"
    /\ \E j \in 1..Len(units) :
           /\ units[j].status = "RETURNED_DEFECTIVE"
           /\ units[j].dateSentToSeller = Today
           /\ units[j].dateSold = Today
           /\ units[j].dateReturned = Today
           /\ units[j].uniqueAuthHash =
                  generateSecureHash(units[j].serialNumber, units[j].manufacturerId)

----------------------------------------------------------------------------
(* Properties of the reservations of stored orders *)

\* C36: every unit id reserved by an order of the orders collection is the id
\* of a unit of the units collection.
ReservedUnitsExist ==
    \A i \in 1..Len(orders) :
        \A id \in Range(orders[i].assignedUnitIds) :
            \E j \in 1..Len(units) : units[j].id = id

\* C37: no unit id is reserved by two different orders that are both in a
\* status other than Returned.
ReservedOnce ==
    \A i \in 1..Len(orders), k \in 1..Len(orders) :
        (/\ i # k
         /\ orders[i].status # "Returned"
         /\ orders[k].status # "Returned")
        => Range(orders[i].assignedUnitIds) \cap Range(orders[k].assignedUnitIds) = {}

----------------------------------------------------------------------------
(* Conservation of bulk quantity *)

RECURSIVE SumQuantities(_)
SumQuantities(records) ==
    IF records = <<>> THEN 0 ELSE Head(records).quantity + SumQuantities(Tail(records))

\* the quantity of a product held by all owners plus that of its orders that
\* are not Returned
BulkTotal(allStock, allOrders, productId) ==
    SumQuantities(SelectSeq(allStock, LAMBDA r : r.productId = productId))
        + SumQuantities(SelectSeq(allOrders, LAMBDA o :
                            o.productId = productId /\ o.status # "Returned"))

\* C38: for every bulk product the quantity held by all owners plus the
\* quantity of its orders that are not Returned changes only by a grant of
\* saveProductBatch and by a transfer to a null destination: every other
\* operation conserves it.
BulkConserved ==
    [][\A i \in 1..Len(products) :
          (/\ ~products[i].isSerialized
           /\ last'.op # "saveProductBatch"
           /\ ~(last'.op = "transferBulkStock" /\ last'.to = Undefined))
          => BulkTotal(bulkStock', orders', products[i].id)
                 = BulkTotal(bulkStock, orders, products[i].id)]_vars

\* C39: a successful processCheckout leaves unchanged every unit it did not
\* select for a new order, every BulkStock record of a product and owner that
\* no line names, every order that existed before and the cart of every other
\* buyer, and the units collection holds the same ids before and after.
CheckoutFrame ==
    [][(last'.op = "processCheckout" /\ last'.ok) =>
          LET new == last'.newOrders
              selected == UNION {Range(new[n].assignedUnitIds) : n \in 1..Len(new)}
              named == {<<new[n].productId, new[n].sellerId>> : n \in 1..Len(new)}
              buyers == {new[n].buyerId : n \in 1..Len(new)}
          IN  /\ Len(units') = Len(units)
              /\ \A j \in 1..Len(units) :
                     /\ units'[j].id = units[j].id
                     /\ units[j].id \notin selected => units'[j] = units[j]
              /\ Len(bulkStock') = Len(bulkStock)
              /\ \A k \in 1..Len(bulkStock) :
                     <<bulkStock[k].productId, bulkStock[k].ownerId>> \notin named
                         => bulkStock'[k] = bulkStock[k]
              /\ Len(orders') = Len(orders) + Len(new)
              /\ \A i \in 1..Len(orders) : orders'[i] = orders[i]
              /\ \A b \in Buyers : b \notin buyers => carts'[b] = carts[b]]_vars

\* a checkout has just succeeded while an earlier order, a unit it did not
\* select, a stock record it did not name and another buyer's filled cart exist
CheckoutFrameReached ==
    /\ last.op = "processCheckout" /\ last.ok
    /\ Len(last.newOrders) = 1
    /\ Len(orders) = 2
    /\ Len(last.newOrders[1].assignedUnitIds) > 0
    /\ \E j \in 1..Len(units) : units[j].id \notin Range(last.newOrders[1].assignedUnitIds)
    /\ \E k \in 1..Len(bulkStock) : bulkStock[k].productId # last.newOrders[1].productId
    /\ \E b \in Buyers : b # last.newOrders[1].buyerId /\ carts[b] # <<>>

----------------------------------------------------------------------------
(* Properties of product deletion *)

\* C40: every unit and every BulkStock record references a product of the
\* catalog.
ReferencesInCatalog ==
    LET catalog == {products[i].id : i \in 1..Len(products)}
    IN  /\ \A j \in 1..Len(units) : units[j].productId \in catalog
        /\ \A k \in 1..Len(bulkStock) : bulkStock[k].productId \in catalog

====
